---- MODULE Spec2Model ----
(***************************************************************************)
(* A model of fs (src/fs.c): main's stream loop, process_file's           *)
(* match-and-context engine, and the pure helpers they call.               *)
(*                                                                         *)
(* C strings are sequences of one-character strings; a NULL pointer is     *)
(* the empty tuple where a pointer is optional (see Ptr / NULL).           *)
(* MAX_LINE_LEN is 4096 in the source; the model keeps every use of it     *)
(* (fgets, strncpy, the expansion buffer, the default -l) but scales the   *)
(* number down so that a line longer than the buffer fits in a state,     *)
(* keeping MAX_LINE_LEN a multiple of TAB_WIDTH and room for two tab stops.*)
(***************************************************************************)
EXTENDS Integers, Sequences, FiniteSets, TLC

\* ------------------------------------------------------------------
\* Program constants
\* ------------------------------------------------------------------
MAX_LINE_LEN == 12
TAB_WIDTH == 4
PREFIX_SIZE == 256
EXIT_SUCCESS == 0
EXIT_FAILURE == 1

\* ------------------------------------------------------------------
\* Bounds of the model
\* ------------------------------------------------------------------
MaxLines == 4
MaxBefore == 2
MaxAfter == 2
MaxMatchLen == 3     \* characters of a line given to line_contains alone
MaxPatLen == 2       \* characters of a pattern given to line_contains alone
MaxFmtLen == 4       \* characters of a line given to print_line alone

\* ------------------------------------------------------------------
\* C library pieces, as fs.c uses them
\* ------------------------------------------------------------------
NULL == <<>>
Ptr(s) == <<s>>

Min(a, b) == IF a < b THEN a ELSE b
Max(a, b) == IF a > b THEN a ELSE b

\* The first n characters of s (all of s when it is shorter).
Take(s, n) == SubSeq(s, 1, Min(n, Len(s)))
\* s without its first n characters.
Drop(s, n) == SubSeq(s, n + 1, Len(s))

tolower(c) ==
    CASE c = "A" -> "a"
      [] c = "B" -> "b"
      [] OTHER -> c

\* for (p = s; *p; p++) *p = tolower(*p)
lower_str(s) == [k \in 1..Len(s) |-> tolower(s[k])]

\* strncpy(dst, src, n); dst[n] = '\0'
strncpy(s, n) == Take(s, n)

\* strstr(haystack, needle) != NULL
strstr(h, n) ==
    \E k \in 0..(Len(h) - Len(n)) : SubSeq(h, k + 1, k + Len(n)) = n

\* regcomp: the model's pattern language is literal characters and '.',
\* an unmatched '[' is the one syntax error it knows.
regcomp(pattern, icase) ==
    [ok |-> \A k \in 1..Len(pattern) : pattern[k] # "[",
     pat |-> pattern,
     icase |-> icase]

regex_char(re, p, c) ==
    \/ p = "."
    \/ p = c
    \/ re.icase /\ tolower(p) = tolower(c)

\* regexec(regex, line, 0, NULL, 0) == 0
regexec(re, line) ==
    \E k \in 0..(Len(line) - Len(re.pat)) :
        \A m \in 1..Len(re.pat) : regex_char(re, re.pat[m], line[k + m])

\* fgets(line, size, fp): at most size-1 characters, stopping after a
\* newline; ok is FALSE at end of file.
RECURSIVE fgets_len(_, _, _, _)
fgets_len(content, pos, n, size) ==
    IF n >= size - 1 \/ pos + n >= Len(content) THEN n
    ELSE IF content[pos + n + 1] = "\n" THEN n + 1
    ELSE fgets_len(content, pos, n + 1, size)

fgets(content, pos, size) ==
    LET n == fgets_len(content, pos, 0, size)
    IN [ok |-> n > 0,
        line |-> SubSeq(content, pos + 1, pos + n),
        pos |-> pos + n]

DigitChar(d) == <<"0", "1", "2", "3", "4", "5", "6", "7", "8", "9">>[d + 1]

\* printf("%d", n), n >= 0
RECURSIVE fmt_d(_)
fmt_d(n) ==
    IF n < 10 THEN <<DigitChar(n)>>
    ELSE fmt_d(n \div 10) \o <<DigitChar(n % 10)>>

\* printf("%04d", n), n >= 0
fmt_04d(n) ==
    LET d == fmt_d(n)
    IN [k \in 1..(4 - Min(4, Len(d))) |-> "0"] \o d

\* ------------------------------------------------------------------
\* line_contains (src/fs.c 173-200)
\* ------------------------------------------------------------------
\* A variant of line_contains: the regex branch returns before the
\* inversion is applied.
line_contains_regex_not_inverted(line, o, regex) ==
    IF o.use_regex THEN regexec(regex, line)
    ELSE LET matched ==
                 IF o.ignore_case
                 THEN strstr(lower_str(strncpy(line, MAX_LINE_LEN - 1)), o.pattern)
                 ELSE strstr(line, o.pattern)
         IN IF o.reverse_find THEN ~matched ELSE matched

line_contains(line, o, regex) ==
    LET matched ==
            IF o.use_regex THEN regexec(regex, line)
            ELSE IF o.ignore_case
                 THEN strstr(lower_str(strncpy(line, MAX_LINE_LEN - 1)), o.pattern)
                 ELSE strstr(line, o.pattern)
    IN IF o.reverse_find THEN ~matched ELSE matched

\* ------------------------------------------------------------------
\* append_to_buffer (src/fs.c 203-219): vsnprintf into what is left of buf
\* ------------------------------------------------------------------
append_to_buffer(buf, bufsize, text) ==
    IF bufsize = 0 THEN buf
    ELSE IF Len(buf) >= bufsize - 1 THEN buf
    ELSE buf \o Take(text, bufsize - Len(buf) - 1)

\* ------------------------------------------------------------------
\* get_basename (src/fs.c 224-230)
\* ------------------------------------------------------------------
get_basename(path) ==
    LET slashes == {k \in 1..Len(path) : path[k] = "/"}
    IN IF slashes = {} THEN path
       ELSE Drop(path, CHOOSE k \in slashes : \A m \in slashes : m <= k)

\* ------------------------------------------------------------------
\* print_line (src/fs.c 235-301)
\* ------------------------------------------------------------------
\* A variant of strip_newline: the newline is left in the copy.
strip_newline_never(line) == strncpy(line, MAX_LINE_LEN - 1)

\* A variant of strip_newline: the last character is cut without
\* looking at it.
strip_newline_unchecked(line) ==
    LET buffer == strncpy(line, MAX_LINE_LEN - 1)
    IN IF Len(buffer) > 0 THEN SubSeq(buffer, 1, Len(buffer) - 1) ELSE buffer

\* The local copy with one trailing newline stripped (243-252).
strip_newline(line) ==
    LET buffer == strncpy(line, MAX_LINE_LEN - 1)
    IN IF Len(buffer) > 0 /\ buffer[Len(buffer)] = "\n"
       THEN SubSeq(buffer, 1, Len(buffer) - 1)
       ELSE buffer

\* The inner loop of the tab expansion (261-264).
RECURSIVE tab_spaces(_, _, _)
tab_spaces(exp, s, spaces) ==
    IF s < spaces /\ Len(exp) < MAX_LINE_LEN - 1
    THEN tab_spaces(Append(exp, " "), s + 1, spaces)
    ELSE exp

\* A variant of expand_tabs: col counts the characters read, not the
\* characters written.
RECURSIVE expand_tabs_input_column(_, _, _, _)
expand_tabs_input_column(buffer, k, exp, col) ==
    IF k > Len(buffer) \/ Len(exp) >= MAX_LINE_LEN - 1 THEN exp
    ELSE IF buffer[k] = "\t"
         THEN expand_tabs_input_column(buffer, k + 1,
                  tab_spaces(exp, 0, TAB_WIDTH - (col % TAB_WIDTH)), col + 1)
         ELSE expand_tabs_input_column(buffer, k + 1, Append(exp, buffer[k]), col + 1)

\* The tab expansion loop (255-273); col advances with every character
\* written, as in the source.
RECURSIVE expand_tabs(_, _, _, _)
expand_tabs(buffer, k, exp, col) ==
    IF k > Len(buffer) \/ Len(exp) >= MAX_LINE_LEN - 1 THEN exp
    ELSE IF buffer[k] = "\t"
         THEN LET spaces == TAB_WIDTH - (col % TAB_WIDTH)
                  exp2 == tab_spaces(exp, 0, spaces)
              IN expand_tabs(buffer, k + 1, exp2, col + (Len(exp2) - Len(exp)))
         ELSE expand_tabs(buffer, k + 1, Append(exp, buffer[k]), col + 1)

\* A variant of print_line_body: the limit is applied before the crop.
print_line_body_truncate_first(line, max_chars, crop_chars) ==
    LET line_expanded == expand_tabs(strip_newline(line), 1, <<>>, 0)
        limited == Take(line_expanded, max_chars)
    IN IF crop_chars > 0
       THEN IF Len(limited) > crop_chars THEN Drop(limited, crop_chars) ELSE <<>>
       ELSE limited

\* The text printf prints after the prefix (275-286, and %.*s of 300).
print_line_body(line, max_chars, crop_chars) ==
    LET line_expanded == expand_tabs(strip_newline(line), 1, <<>>, 0)
        len == Len(line_expanded)
        line_to_print ==
            IF crop_chars > 0
            THEN IF len > crop_chars THEN Drop(line_expanded, crop_chars) ELSE <<>>
            ELSE line_expanded
        max == IF max_chars > len THEN len ELSE max_chars
    IN Take(line_to_print, max)

\* The prefix (291-297).
print_line_prefix(filename, lineno, show_line_nums, show_fname) ==
    LET p1 == IF show_fname
              THEN append_to_buffer(<<>>, PREFIX_SIZE, get_basename(filename) \o <<":">>)
              ELSE <<>>
    IN IF show_line_nums
       THEN append_to_buffer(p1, PREFIX_SIZE, fmt_04d(lineno) \o <<":">>)
       ELSE p1

print_line(filename, line, lineno, max_chars, crop_chars, show_line_nums, show_fname) ==
    print_line_prefix(filename, lineno, show_line_nums, show_fname)
        \o print_line_body(line, max_chars, crop_chars)
        \o <<"\n">>

\* ------------------------------------------------------------------
\* process_file (src/fs.c 313-423), its loop body cut at the three
\* places where the source itself separates it by comment banners:
\* the match block, the print of the current line, the buffer update.
\* An output event records what was printed (text) and, for the
\* reader of a trace, why: kind, the line number being processed when
\* it was printed (at) and the line number printed with it (lineno).
\* ------------------------------------------------------------------
Ev(kind, at, lineno, text) ==
    [kind |-> kind, at |-> at, lineno |-> lineno, text |-> text]

START_MARKER == <<"-", "-", "-", "\n">>
END_MARKER == <<"+", "+", "+", "\n">>
MATCH_FOUND_IN == <<"M", "a", "t", "c", "h", " ", "F", "o", "u", "n", "d", " ", "I", "n", ":", " ">>
TITLE_HEAD == <<"\n", "-", "-", "-", "-", "-", "-", "-", "-", "-", "-", "-", "-", "-", "-", "-", "-", "-", "-", "-", "-", "-", "-", "\n", "F", "i", "l", "e", ":", " ">>
TITLE_TAIL == <<"\n", "-", "-", "-", "-", "-", "-", "-", "-", "-", "-", "-", "-", "-", "-", "-", "-", "-", "-", "-", "-", "-", "-", "\n">>
STDIN_NAME == <<"<", "s", "t", "d", "i", "n", ">">>

\* The locals at entry (317-328); xcalloc zeroes the buffer slots.
process_file_locals(o) ==
    [before_size |-> o.before,
     before_buf |-> [k \in 1..o.before |-> [lineno |-> 0, line |-> NULL]],
     line |-> <<>>,
     match |-> FALSE,
     lineno |-> 1,
     after_counter |-> 0,
     buf_pos |-> 0,
     buf_count |-> 0,
     match_count |-> 0]

\* -F: the title printed at entry (333-334).
title_out(o, filename) ==
    IF o.filename_title
    THEN <<Ev("title", 0, 0, TITLE_HEAD \o filename \o TITLE_TAIL)>>
    ELSE <<>>

\* The replay loop of the before buffer (361-368), from iteration k on.
RECURSIVE before_replay(_, _, _, _, _)
before_replay(s, o, filename, start, k) ==
    IF k >= s.buf_count THEN <<>>
    ELSE LET idx == (start + k) % s.before_size
             slot == s.before_buf[idx + 1]
             here == IF slot.line # NULL
                     THEN <<Ev("before", s.lineno, slot.lineno,
                               print_line(filename, slot.line[1], slot.lineno,
                                          o.line_limit, o.line_crop,
                                          o.show_line_numbers, o.show_filename))>>
                     ELSE <<>>
         IN here \o before_replay(s, o, filename, start, k + 1)

\* A variant of match_step: match_count++ moved into the block that
\* replays the before buffer.
match_step_count_in_block(s, o, filename) ==
    LET block == s.before_size > 0 /\ ~o.count_only
        out == IF block
               THEN <<Ev("start", s.lineno, 0, START_MARKER)>>
                    \o before_replay(s, o, filename,
                           (s.buf_pos + (s.before_size - s.buf_count)) % s.before_size, 0)
               ELSE <<>>
    IN [s |-> [s EXCEPT !.match_count = IF block THEN s.match_count + 1 ELSE s.match_count,
                        !.after_counter = o.after],
        out |-> out]

\* A variant of match_step: a running after window is not restarted.
match_step_no_refresh(s, o, filename) ==
    LET out == IF s.before_size > 0 /\ ~o.count_only
               THEN <<Ev("start", s.lineno, 0, START_MARKER)>>
                    \o before_replay(s, o, filename,
                           (s.buf_pos + (s.before_size - s.buf_count)) % s.before_size, 0)
               ELSE <<>>
    IN [s |-> [s EXCEPT !.match_count = s.match_count + 1,
                        !.after_counter = IF s.after_counter = 0 THEN o.after
                                          ELSE s.after_counter],
        out |-> out]

\* A variant of match_step: the start marker is printed only when the
\* buffer holds a line.
match_step_start_if_buffered(s, o, filename) ==
    LET out == IF s.before_size > 0 /\ ~o.count_only /\ s.buf_count > 0
               THEN <<Ev("start", s.lineno, 0, START_MARKER)>>
                    \o before_replay(s, o, filename,
                           (s.buf_pos + (s.before_size - s.buf_count)) % s.before_size, 0)
               ELSE <<>>
    IN [s |-> [s EXCEPT !.match_count = s.match_count + 1,
                        !.after_counter = o.after],
        out |-> out]

\* A variant of match_step: the start marker is printed after the
\* replay loop instead of before it.
match_step_marker_after_lines(s, o, filename) ==
    LET out == IF s.before_size > 0 /\ ~o.count_only
               THEN before_replay(s, o, filename,
                        (s.buf_pos + (s.before_size - s.buf_count)) % s.before_size, 0)
                    \o <<Ev("start", s.lineno, 0, START_MARKER)>>
               ELSE <<>>
    IN [s |-> [s EXCEPT !.match_count = s.match_count + 1,
                        !.after_counter = o.after],
        out |-> out]

\* The match block without the -m exit (350-375).
match_step(s, o, filename) ==
    LET out == IF s.before_size > 0 /\ ~o.count_only
               THEN <<Ev("start", s.lineno, 0, START_MARKER)>>
                    \o before_replay(s, o, filename,
                           (s.buf_pos + (s.before_size - s.buf_count)) % s.before_size, 0)
               ELSE <<>>
    IN [s |-> [s EXCEPT !.match_count = s.match_count + 1,
                        !.after_counter = o.after],
        out |-> out]

\* A variant of emit_step: the countdown lacks the !match test.
emit_step_consume(s, o, filename) ==
    IF (s.match \/ s.after_counter > 0) /\ ~o.count_only
    THEN LET cur == Ev("current", s.lineno, s.lineno,
                       print_line(filename, s.line, s.lineno,
                                  o.line_limit, o.line_crop,
                                  o.show_line_numbers, o.show_filename))
         IN IF s.after_counter > 0
            THEN [s |-> [s EXCEPT !.after_counter = s.after_counter - 1],
                  out |-> IF s.after_counter - 1 = 0
                          THEN <<cur, Ev("end", s.lineno, 0, END_MARKER)>>
                          ELSE <<cur>>]
            ELSE [s |-> s, out |-> <<cur>>]
    ELSE [s |-> s, out |-> <<>>]

\* A variant of emit_step: the print lacks the !count_only test.
emit_step_ignore_count(s, o, filename) ==
    IF s.match \/ s.after_counter > 0
    THEN LET cur == Ev("current", s.lineno, s.lineno,
                       print_line(filename, s.line, s.lineno,
                                  o.line_limit, o.line_crop,
                                  o.show_line_numbers, o.show_filename))
         IN IF ~s.match /\ s.after_counter > 0
            THEN [s |-> [s EXCEPT !.after_counter = s.after_counter - 1],
                  out |-> IF s.after_counter - 1 = 0
                          THEN <<cur, Ev("end", s.lineno, 0, END_MARKER)>>
                          ELSE <<cur>>]
            ELSE [s |-> s, out |-> <<cur>>]
    ELSE [s |-> s, out |-> <<>>]

\* A variant of emit_step: the end marker test is outside the countdown
\* branch.
emit_step_end_unguarded(s, o, filename) ==
    IF (s.match \/ s.after_counter > 0) /\ ~o.count_only
    THEN LET cur == Ev("current", s.lineno, s.lineno,
                       print_line(filename, s.line, s.lineno,
                                  o.line_limit, o.line_crop,
                                  o.show_line_numbers, o.show_filename))
             left == IF ~s.match /\ s.after_counter > 0
                     THEN s.after_counter - 1 ELSE s.after_counter
         IN [s |-> [s EXCEPT !.after_counter = left],
             out |-> IF left = 0
                     THEN <<cur, Ev("end", s.lineno, 0, END_MARKER)>>
                     ELSE <<cur>>]
    ELSE [s |-> s, out |-> <<>>]

\* The print of the current line and the after countdown (384-393).
emit_step(s, o, filename) ==
    IF (s.match \/ s.after_counter > 0) /\ ~o.count_only
    THEN LET cur == Ev("current", s.lineno, s.lineno,
                       print_line(filename, s.line, s.lineno,
                                  o.line_limit, o.line_crop,
                                  o.show_line_numbers, o.show_filename))
         IN IF ~s.match /\ s.after_counter > 0
            THEN [s |-> [s EXCEPT !.after_counter = s.after_counter - 1],
                  out |-> IF s.after_counter - 1 = 0
                          THEN <<cur, Ev("end", s.lineno, 0, END_MARKER)>>
                          ELSE <<cur>>]
            ELSE [s |-> s, out |-> <<cur>>]
    ELSE [s |-> s, out |-> <<>>]

\* A variant of push_step: a matching line is not kept for later matches.
push_step_skip_match(s) ==
    IF s.before_size > 0 /\ ~s.match
    THEN [s EXCEPT !.before_buf[s.buf_pos + 1] =
                        [lineno |-> s.lineno, line |-> Ptr(s.line)],
                   !.buf_pos = (s.buf_pos + 1) % s.before_size,
                   !.buf_count = IF s.buf_count < s.before_size
                                 THEN s.buf_count + 1 ELSE s.buf_count,
                   !.lineno = s.lineno + 1]
    ELSE [s EXCEPT !.lineno = s.lineno + 1]

\* A variant of push_step: buf_count grows with every line.
push_step_count_uncapped(s) ==
    IF s.before_size > 0
    THEN [s EXCEPT !.before_buf[s.buf_pos + 1] =
                        [lineno |-> s.lineno, line |-> Ptr(s.line)],
                   !.buf_pos = (s.buf_pos + 1) % s.before_size,
                   !.buf_count = s.buf_count + 1,
                   !.lineno = s.lineno + 1]
    ELSE [s EXCEPT !.lineno = s.lineno + 1]

\* A variant of push_step: buf_pos is advanced without the modulo.
push_step_no_wrap(s) ==
    IF s.before_size > 0
    THEN [s EXCEPT !.before_buf[s.buf_pos + 1] =
                        [lineno |-> s.lineno, line |-> Ptr(s.line)],
                   !.buf_pos = s.buf_pos + 1,
                   !.buf_count = IF s.buf_count < s.before_size
                                 THEN s.buf_count + 1 ELSE s.buf_count,
                   !.lineno = s.lineno + 1]
    ELSE [s EXCEPT !.lineno = s.lineno + 1]

\* The circular buffer update and lineno++ (399-407).
push_step(s) ==
    IF s.before_size > 0
    THEN [s EXCEPT !.before_buf[s.buf_pos + 1] =
                        [lineno |-> s.lineno, line |-> Ptr(s.line)],
                   !.buf_pos = (s.buf_pos + 1) % s.before_size,
                   !.buf_count = IF s.buf_count < s.before_size
                                 THEN s.buf_count + 1 ELSE s.buf_count,
                   !.lineno = s.lineno + 1]
    ELSE [s EXCEPT !.lineno = s.lineno + 1]

\* -c: the count line after the loop (413-415).
eof_out(s, o, filename) ==
    IF o.count_only
    THEN <<Ev("count", s.lineno, 0,
              get_basename(filename) \o <<":">> \o fmt_d(s.match_count) \o <<"\n">>)>>
    ELSE <<>>

\* The cleanup after the loop (418-422): every slot's line is freed.
cleanup(s) ==
    [s EXCEPT !.before_buf = [k \in 1..s.before_size |-> [lineno |-> s.before_buf[k].lineno, line |-> NULL]]]

\* The heap of process_file, as the number of live blocks: before_buf
\* arrays (xcalloc, 320) and line copies (strdup, 401).
EMPTY_HEAP == [bufs |-> 0, lines |-> 0]

\* 319-321: the array is allocated when before_size > 0.
heap_enter(h, s) ==
    IF s.before_size > 0 THEN [h EXCEPT !.bufs = @ + 1] ELSE h

\* 399-401: the slot's old copy is freed (free(NULL) does nothing) and
\* the line is copied into it.
heap_push(h, s) ==
    IF s.before_size > 0
    THEN [h EXCEPT !.lines = @ - (IF s.before_buf[s.buf_pos + 1].line # NULL THEN 1 ELSE 0) + 1]
    ELSE h

\* 418-422: every slot's copy and the array are freed when before_buf
\* is not NULL.
heap_cleanup(h, s) ==
    IF s.before_size > 0
    THEN [bufs |-> h.bufs - 1,
          lines |-> h.lines - Cardinality({k \in 1..s.before_size : s.before_buf[k].line # NULL})]
    ELSE h

\* -m: the line printed at the first match (345).
found_out(s, filename) ==
    <<Ev("found", s.lineno, 0, MATCH_FOUND_IN \o filename \o <<"\n">>)>>

\* The loop of process_file from pos on, as the sequence it prints
\* (336-415): the steps above in the order the loop body runs them.
RECURSIVE process_file_run(_, _, _, _, _, _)
process_file_run(filename, content, pos, s, o, re) ==
    LET r == fgets(content, pos, MAX_LINE_LEN)
        s1 == [s EXCEPT !.line = r.line, !.match = line_contains(r.line, o, re)]
    IN IF ~r.ok THEN eof_out(s, o, filename)
       ELSE IF s1.match /\ o.filename_only THEN found_out(s1, filename)
       ELSE LET m == IF s1.match THEN match_step(s1, o, filename)
                     ELSE [s |-> s1, out |-> <<>>]
                e == emit_step(m.s, o, filename)
            IN m.out \o e.out
                \o process_file_run(filename, content, r.pos, push_step(e.s), o, re)

\* What one call of process_file prints (313-423).
process_file_out(filename, content, o, re) ==
    title_out(o, filename)
        \o process_file_run(filename, content, 0, process_file_locals(o), o, re)

\* ------------------------------------------------------------------
\* State
\* ------------------------------------------------------------------
VARIABLES
    opts,       \* Options, as parse_options left them
    regex,      \* regex_t of main
    argv,       \* the file arguments argv[first_file_index..]
    disk,       \* path -> [ok: fopen succeeds, content: the bytes]
    stdin,      \* [tty, content]
    pc,         \* where the program is
    i, j,       \* main's loop indices (1-based here); i = 0: reading stdin
    filename,   \* process_file's filename
    fp,         \* process_file's stream: [content, pos]
    pf,         \* process_file's locals
    out,        \* stdout, one event per printf / print_line
    err,        \* stderr, one event per perror / fprintf
    status,     \* main's return value, once pc = "done"
    sid,        \* how many streams main has tried to open so far
    heap,       \* live allocations of process_file: [bufs, lines]
    call        \* the call of a helper run on its own: inputs and results

vars == <<opts, regex, argv, disk, stdin, pc, i, j, filename, fp, pf, out, err, status, sid,
          heap, call>>

\* ------------------------------------------------------------------
\* The inputs the model is run on
\* ------------------------------------------------------------------
F1 == <<"f">>
F2 == <<"d", "/", "g">>
F3 == <<"x">>
Paths == {F1, F2, F3}

\* An argument glob() expands, and one it does not (fopen(argv[i])).
Globbed(pathv) == [glob |-> TRUE, pathv |-> pathv, arg |-> pathv[1]]
Plain(path) == [glob |-> FALSE, pathv |-> <<>>, arg |-> path]

RECURSIVE Concat(_)
Concat(ss) == IF ss = <<>> THEN <<>> ELSE Head(ss) \o Concat(Tail(ss))

SeqsUpTo(S, n) == UNION {[1..k -> S] : k \in 0..n}

LINE_A == <<"a", "\n">>
LINE_B == <<"b", "\n">>

\* Files of short lines, each matching or not matching the pattern "a".
ShortFiles(n) == {Concat(ls) : ls \in SeqsUpTo({LINE_A, LINE_B}, n)}

\* Files with long lines, empty lines, tabs, upper case, no final newline.
RichFiles ==
    { <<"a", "b", "b", "b", "b", "b", "b", "b", "b", "b", "b", "b", "a", "\n", "b", "\n">>,
      <<"b", "\n", "b", "b", "b", "b", "b", "b", "b", "b", "b", "b", "a", "b", "\n", "a", "\n">>,
      <<"a", "\n", "b", "a", "b", "a", "b", "a", "b", "a", "b", "a", "b", "a", "b", "a", "b", "a", "b", "a", "b", "a", "b", "a", "b", "\n">>,
      <<"b", "\n", "a">>,
      <<"\n", "A", "\n", "\n">>,
      <<"\t", "a", "\n", "b", "\t", "\n">>,
      <<"\t", "\t", "\t", "a", "\n">>,
      <<"b", "b", "b", "a">>,
      <<>> }

DefaultOpts ==
    [ignore_case |-> FALSE, reverse_find |-> FALSE, use_regex |-> FALSE,
     show_line_numbers |-> FALSE, show_filename |-> FALSE,
     filename_title |-> FALSE, filename_only |-> FALSE, count_only |-> FALSE,
     before |-> 0, after |-> 0,
     line_limit |-> MAX_LINE_LEN - 1, line_crop |-> 0,
     pattern |-> <<"a">>]

MissingFile == [ok |-> FALSE, content |-> <<>>]
File(c) == [ok |-> TRUE, content |-> c]
Disk(c1, c2) == (F1 :> File(c1)) @@ (F2 :> File(c2)) @@ (F3 :> MissingFile)
NoStdin == [tty |-> TRUE, content |-> <<>>]

\* One stream, every combination of the reporting and context options.
EngineRuns ==
    { [opts |-> [DefaultOpts EXCEPT !.before = b, !.after = a, !.count_only = c,
                                    !.filename_only = m],
       argv |-> <<Globbed(<<F1>>)>>,
       disk |-> Disk(c1, <<>>),
       stdin |-> NoStdin] :
        b \in 0..MaxBefore, a \in 0..MaxAfter, c \in BOOLEAN, m \in BOOLEAN,
        c1 \in ShortFiles(MaxLines) }

\* One stream of richer text, from a file or from stdin, with the
\* matching modes and some formatting and reporting options.
Formats ==
    { [n |-> FALSE, l |-> MAX_LINE_LEN - 1, cr |-> 0, b |-> 0, c |-> FALSE],
      [n |-> TRUE, l |-> 2, cr |-> 0, b |-> 1, c |-> FALSE],
      [n |-> TRUE, l |-> MAX_LINE_LEN - 1, cr |-> 1, b |-> 1, c |-> TRUE],
      [n |-> FALSE, l |-> 2, cr |-> 1, b |-> 0, c |-> TRUE] }

TextOpts ==
    { [DefaultOpts EXCEPT !.pattern = p, !.ignore_case = ic, !.use_regex = re,
                          !.reverse_find = r,
                          !.show_line_numbers = f.n, !.show_filename = f.n,
                          !.line_limit = f.l, !.line_crop = f.cr,
                          !.count_only = f.c, !.before = f.b, !.after = f.b] :
        p \in {<<"a">>, <<"a", "b">>, <<"A">>, <<>>, <<".", "a">>, <<"[">>},
        ic \in BOOLEAN, re \in BOOLEAN, r \in BOOLEAN, f \in Formats }

TextRuns ==
    { [opts |-> o, argv |-> <<Globbed(<<F2>>)>>, disk |-> Disk(<<>>, c), stdin |-> NoStdin] :
        o \in TextOpts, c \in RichFiles }
    \cup
    { [opts |-> o, argv |-> <<>>, disk |-> Disk(<<>>, <<>>), stdin |-> [tty |-> t, content |-> c]] :
        o \in {x \in TextOpts : x.pattern = <<"a">> /\ ~x.ignore_case /\ ~x.use_regex
                                    /\ ~x.reverse_find},
        t \in BOOLEAN, c \in RichFiles }

\* Several streams: the same path twice, a path that cannot be opened
\* between two that can, a glob that expands to several paths.
ArgLists ==
    { <<Globbed(<<F1>>), Globbed(<<F2>>), Globbed(<<F1>>)>>,
      <<Globbed(<<F2>>), Plain(F3), Globbed(<<F1>>)>>,
      <<Plain(F3), Globbed(<<F1, F2>>)>>,
      <<Globbed(<<F1, F3, F2>>), Plain(F1)>>,
      <<Globbed(<<F1>>), Globbed(<<F3>>)>> }

StreamRuns ==
    { [opts |-> [DefaultOpts EXCEPT !.before = 1, !.after = 1, !.count_only = c,
                                    !.filename_only = m, !.filename_title = t],
       argv |-> av,
       disk |-> Disk(c1, c2),
       stdin |-> NoStdin] :
        c \in BOOLEAN, m \in BOOLEAN, t \in BOOLEAN, av \in ArgLists,
        c1 \in ShortFiles(MaxLines - 2),
        c2 \in {<<>>, LINE_A, LINE_B \o LINE_A, LINE_A \o LINE_B} }

Runs == EngineRuns \cup TextRuns \cup StreamRuns

\* ------------------------------------------------------------------
\* Init: main after parse_options returned with a pattern and neither
\* -v nor -h (src/fs.c 448-477)
\* ------------------------------------------------------------------
\* No helper is being run on its own while main runs.
NO_CALL == [fn |-> "none"]

Init ==
    \E run \in Runs :
        /\ opts = run.opts
        /\ argv = run.argv
        /\ disk = run.disk
        /\ stdin = run.stdin
        /\ regex = regcomp(<<>>, FALSE)
        /\ pc = "setup"
        /\ i = 1
        /\ j = 1
        /\ filename = <<>>
        /\ fp = [content |-> <<>>, pos |-> 0]
        /\ pf = process_file_locals(DefaultOpts)
        /\ out = <<>>
        /\ err = <<>>
        /\ status = EXIT_SUCCESS
        /\ sid = 0
        /\ heap = EMPTY_HEAP
        /\ call = NO_CALL

\* ------------------------------------------------------------------
\* main (src/fs.c 479-557)
\* ------------------------------------------------------------------
\* stdout events carry the number of the stream that printed them.
Tag(evs, n) ==
    [k \in 1..Len(evs) |->
        [kind |-> evs[k].kind, sid |-> n, at |-> evs[k].at,
         lineno |-> evs[k].lineno, text |-> evs[k].text]]

\* A variant of lowered_pattern: the pattern is left as typed.
lowered_pattern_never(o) == o.pattern

\* -i without -E lowers the pattern once (482-486).
lowered_pattern(o) ==
    IF o.ignore_case /\ ~o.use_regex THEN lower_str(o.pattern) ELSE o.pattern

\* A variant of main_opts: -m leaves -b as given.
main_opts_keep_before(o) == [o EXCEPT !.pattern = lowered_pattern(o)]

\* The options after main's adjustments: the pattern lowered (482-486)
\* and -m turning -b off (510).
main_opts(o) ==
    [o EXCEPT !.pattern = lowered_pattern(o),
              !.before = IF o.filename_only THEN 0 ELSE o.before]

\* 482-510 when regcomp succeeds or is not needed.
Setup ==
    /\ pc = "setup"
    /\ LET pat == lowered_pattern(opts)
           re == regcomp(pat, opts.ignore_case)
       IN /\ opts.use_regex => re.ok
          /\ regex' = IF opts.use_regex THEN re ELSE regex
          /\ opts' = main_opts(opts)
    /\ pc' = IF Len(argv) = 0 THEN "stdin" ELSE "loop"
    /\ i' = IF Len(argv) = 0 THEN 0 ELSE 1
    /\ UNCHANGED <<call, heap, argv, disk, stdin, j, filename, fp, pf, out, err, status, sid>>

\* 493-503 when regcomp fails: exit(EXIT_FAILURE).
RegexCompileFail ==
    /\ pc = "setup"
    /\ opts.use_regex
    /\ ~regcomp(lowered_pattern(opts), opts.ignore_case).ok
    /\ opts' = [opts EXCEPT !.pattern = lowered_pattern(opts)]
    /\ err' = Append(err, [kind |-> "regex", sid |-> sid, path |-> <<>>])
    /\ status' = EXIT_FAILURE
    /\ pc' = "done"
    /\ UNCHANGED <<call, heap, regex, argv, disk, stdin, i, j, filename, fp, pf, out, sid>>

\* 514-520: no file argument and stdin is a terminal.
NoInput ==
    /\ pc = "stdin"
    /\ stdin.tty
    /\ err' = Append(err, [kind |-> "noinput", sid |-> sid, path |-> <<>>])
    /\ status' = EXIT_FAILURE
    /\ pc' = "done"
    /\ UNCHANGED <<call, heap, opts, regex, argv, disk, stdin, i, j, filename, fp, pf, out, sid>>

\* A variant of Enter: after_counter keeps its value from the last call
\* (a static local).
Enter_stale_after(name, content) ==
    /\ sid' = sid + 1
    /\ filename' = name
    /\ fp' = [content |-> content, pos |-> 0]
    /\ pf' = [process_file_locals(opts) EXCEPT !.after_counter = pf.after_counter]
    /\ heap' = heap_enter(heap, process_file_locals(opts))
    /\ out' = out \o Tag(title_out(opts, name), sid + 1)
    /\ pc' = "read"

\* The entry of process_file (317-334) on an open stream.
Enter(name, content) ==
    /\ sid' = sid + 1
    /\ filename' = name
    /\ fp' = [content |-> content, pos |-> 0]
    /\ pf' = process_file_locals(opts)
    /\ heap' = heap_enter(heap, process_file_locals(opts))
    /\ out' = out \o Tag(title_out(opts, name), sid + 1)
    /\ pc' = "read"

\* 522: process_file(stdin, "<stdin>", ...).
StdinStart ==
    /\ pc = "stdin"
    /\ ~stdin.tty
    /\ Enter(STDIN_NAME, stdin.content)
    /\ UNCHANGED <<call, opts, regex, argv, disk, stdin, i, j, err, status>>

\* The path the loops of 525-553 are at.
CurrentPath == IF argv[i].glob THEN argv[i].pathv[j] ELSE argv[i].arg

\* The next (i, j) of the loops of 525-553, globfree included.
NextI == IF argv[i].glob /\ j < Len(argv[i].pathv) THEN i ELSE i + 1
NextJ == IF argv[i].glob /\ j < Len(argv[i].pathv) THEN j + 1 ELSE 1

\* A variant of OpenFail: break instead of continue.
OpenFail_break ==
    /\ pc = "loop"
    /\ i <= Len(argv)
    /\ ~disk[CurrentPath].ok
    /\ sid' = sid + 1
    /\ err' = Append(err, [kind |-> "perror", sid |-> sid + 1, path |-> CurrentPath])
    /\ i' = Len(argv) + 1
    /\ j' = 1
    /\ UNCHANGED <<call, heap, opts, regex, argv, disk, stdin, pc, filename, fp, pf, out, status>>

\* 533-537 and 545-549: fopen fails, perror, continue.
OpenFail ==
    /\ pc = "loop"
    /\ i <= Len(argv)
    /\ ~disk[CurrentPath].ok
    /\ sid' = sid + 1
    /\ err' = Append(err, [kind |-> "perror", sid |-> sid + 1, path |-> CurrentPath])
    /\ i' = NextI
    /\ j' = NextJ
    /\ UNCHANGED <<call, heap, opts, regex, argv, disk, stdin, pc, filename, fp, pf, out, status>>

\* 533/538 and 545/550: fopen succeeds, process_file is entered.
ProcessFileStart ==
    /\ pc = "loop"
    /\ i <= Len(argv)
    /\ disk[CurrentPath].ok
    /\ Enter(CurrentPath, disk[CurrentPath].content)
    /\ UNCHANGED <<call, opts, regex, argv, disk, stdin, i, j, err, status>>

\* process_file returns; main closes the stream and goes on (539, 551).
Return ==
    /\ pc' = IF i = 0 THEN "exit" ELSE "loop"
    /\ i' = IF i = 0 THEN 0 ELSE NextI
    /\ j' = IF i = 0 THEN j ELSE NextJ

\* A variant of Fgets: the read position is not advanced.
Fgets_no_advance ==
    /\ pc = "read"
    /\ LET r == fgets(fp.content, fp.pos, MAX_LINE_LEN)
       IN /\ r.ok
          /\ pf' = [pf EXCEPT !.line = r.line,
                              !.match = line_contains(r.line, opts, regex)]
    /\ pc' = "match"
    /\ UNCHANGED <<call, heap, opts, regex, argv, disk, stdin, i, j, filename, fp, out, err,
                   status, sid>>

\* 336-337: fgets yields a line, line_contains classifies it.
Fgets ==
    /\ pc = "read"
    /\ LET r == fgets(fp.content, fp.pos, MAX_LINE_LEN)
       IN /\ r.ok
          /\ fp' = [fp EXCEPT !.pos = r.pos]
          /\ pf' = [pf EXCEPT !.line = r.line,
                              !.match = line_contains(r.line, opts, regex)]
    /\ pc' = "match"
    /\ UNCHANGED <<call, heap, opts, regex, argv, disk, stdin, i, j, filename, out, err,
                   status, sid>>

\* 336, 413-423: fgets yields NULL; the count line, the cleanup, return.
Eof ==
    /\ pc = "read"
    /\ ~fgets(fp.content, fp.pos, MAX_LINE_LEN).ok
    /\ out' = out \o Tag(eof_out(pf, opts, filename), sid)
    /\ pf' = cleanup(pf)
    /\ heap' = heap_cleanup(heap, pf)
    /\ Return
    /\ UNCHANGED <<call, opts, regex, argv, disk, stdin, filename, fp, err, status, sid>>

\* A variant of MatchFilenameOnly: the return is missing.
MatchFilenameOnly_no_return ==
    /\ pc = "match"
    /\ pf.match
    /\ opts.filename_only
    /\ out' = out \o Tag(found_out(pf, filename), sid)
    /\ pc' = "emit"
    /\ UNCHANGED <<call, heap, opts, regex, argv, disk, stdin, i, j, filename, fp, pf, err,
                   status, sid>>

\* 340-347: a match under -m prints the file name and returns.
MatchFilenameOnly ==
    /\ pc = "match"
    /\ pf.match
    /\ opts.filename_only
    /\ out' = out \o Tag(found_out(pf, filename), sid)
    /\ Return
    /\ UNCHANGED <<call, heap, opts, regex, argv, disk, stdin, filename, fp, pf, err, status, sid>>

\* 340, 350-376: a match without -m.
MatchHandle ==
    /\ pc = "match"
    /\ pf.match
    /\ ~opts.filename_only
    /\ LET r == match_step(pf, opts, filename)
       IN /\ pf' = r.s
          /\ out' = out \o Tag(r.out, sid)
    /\ pc' = "emit"
    /\ UNCHANGED <<call, heap, opts, regex, argv, disk, stdin, i, j, filename, fp, err,
                   status, sid>>

\* 340: no match, the block is skipped.
NoMatch ==
    /\ pc = "match"
    /\ ~pf.match
    /\ pc' = "emit"
    /\ UNCHANGED <<call, heap, opts, regex, argv, disk, stdin, i, j, filename, fp, pf, out,
                   err, status, sid>>

\* 384-393.
Emit ==
    /\ pc = "emit"
    /\ LET r == emit_step(pf, opts, filename)
       IN /\ pf' = r.s
          /\ out' = out \o Tag(r.out, sid)
    /\ pc' = "push"
    /\ UNCHANGED <<call, heap, opts, regex, argv, disk, stdin, i, j, filename, fp, err,
                   status, sid>>

\* 399-407.
Push ==
    /\ pc = "push"
    /\ pf' = push_step(pf)
    /\ heap' = heap_push(heap, pf)
    /\ pc' = "read"
    /\ UNCHANGED <<call, opts, regex, argv, disk, stdin, i, j, filename, fp, out, err, status, sid>>

\* 555-557: the loop is over, return EXIT_SUCCESS.
MainExit ==
    /\ \/ pc = "exit"
       \/ pc = "loop" /\ i > Len(argv)
    /\ status' = EXIT_SUCCESS
    /\ pc' = "done"
    /\ UNCHANGED <<call, heap, opts, regex, argv, disk, stdin, i, j, filename, fp, pf, out,
                   err, sid>>

Next ==
    \/ Setup
    \/ RegexCompileFail
    \/ NoInput
    \/ StdinStart
    \/ OpenFail
    \/ ProcessFileStart
    \/ Fgets
    \/ Eof
    \/ MatchFilenameOnly
    \/ MatchHandle
    \/ NoMatch
    \/ Emit
    \/ Push
    \/ MainExit

Spec == Init /\ [][Next]_vars

\* main is one sequential process: a step that can be taken is taken
\* (fgets on a finite stream returns, no step waits for anything).
\* Its runs are those of Init with as many lines of context after a
\* match as before it.
LiveInit == Init /\ opts.before = opts.after

LiveSpec == LiveInit /\ [][Next]_vars /\ WF_vars(Next)

\* ------------------------------------------------------------------
\* Vocabulary of the properties
\* ------------------------------------------------------------------
\* The streams main visits, in order: every path of every argument, or
\* stdin when there is no argument.
RECURSIVE ArgPaths(_)
ArgPaths(av) ==
    IF av = <<>> THEN <<>>
    ELSE (IF Head(av).glob THEN Head(av).pathv ELSE <<Head(av).arg>>) \o ArgPaths(Tail(av))

StreamList ==
    IF Len(argv) = 0
    THEN <<[name |-> STDIN_NAME, ok |-> TRUE, content |-> stdin.content]>>
    ELSE [k \in 1..Len(ArgPaths(argv)) |->
            [name |-> ArgPaths(argv)[k],
             ok |-> disk[ArgPaths(argv)[k]].ok,
             content |-> disk[ArgPaths(argv)[k]].content]]

\* The lines a line source with a buffer of the given size yields.
RECURSIVE ReadAll(_, _, _)
ReadAll(content, pos, size) ==
    LET r == fgets(content, pos, size)
    IN IF r.ok THEN <<r.line>> \o ReadAll(content, r.pos, size) ELSE <<>>

\* The lines the matcher is handed for stream n, and the
\* newline-delimited lines of stream n.
Lines(n) == ReadAll(StreamList[n].content, 0, MAX_LINE_LEN)
WholeLines(n) == ReadAll(StreamList[n].content, 0, Len(StreamList[n].content) + 2)
Name(n) == StreamList[n].name

\* The streams opened so far, and whether stream n has returned.
Opened == {n \in 1..sid : StreamList[n].ok}
InFile == pc \in {"read", "match", "emit", "push"}
Finished(n) == n < sid \/ ~InFile
\* The match block of line k of stream n is behind us / so is the whole line.
Handled(n, k) ==
    Finished(n) \/ pf.lineno > k \/ (pf.lineno = k /\ pc \in {"emit", "push"})
Processed(n, k) == Finished(n) \/ pf.lineno > k

IsMatch(line) == line_contains(line, opts, regex)
Matches(n) == {k \in 1..Len(Lines(n)) : IsMatch(Lines(n)[k])}
FirstMatch(n) == CHOOSE k \in Matches(n) : \A m \in Matches(n) : k <= m

\* What stream n printed; of one kind; while at line k.
Seg(n) == SelectSeq(out, LAMBDA e : e.sid = n)
SegKind(n, kind) == SelectSeq(out, LAMBDA e : e.sid = n /\ e.kind = kind)
SegAt(n, kind, k) == SelectSeq(out, LAMBDA e : e.sid = n /\ e.kind = kind /\ e.at = k)
Untitled(n) == SelectSeq(out, LAMBDA e : e.sid = n /\ e.kind # "title")

\* The line print_line prints for line k of stream n.
Printed(n, k) ==
    print_line(Name(n), Lines(n)[k], k, opts.line_limit, opts.line_crop,
               opts.show_line_numbers, opts.show_filename)

\* ------------------------------------------------------------------
\* C1. In count_only mode every count line reports the number of lines
\* of its stream that the matcher (inversion applied) accepts, 0 when
\* there is none, whatever before and after are.
\* ------------------------------------------------------------------
CountLine(n, c) == get_basename(Name(n)) \o <<":">> \o fmt_d(c) \o <<"\n">>

C1_CountEqualsMatches ==
    \A n \in Opened :
        \A k \in 1..Len(SegKind(n, "count")) :
            /\ opts.count_only
            /\ SegKind(n, "count")[k].text = CountLine(n, Cardinality(Matches(n)))

C1_Witness ==
    \E n \in Opened :
        /\ opts.count_only /\ opts.before > 0 /\ opts.after > 0
        /\ Cardinality(Matches(n)) >= 2
        /\ Cardinality(Matches(n)) < Len(Lines(n))
        /\ Len(SegKind(n, "count")) = 1

\* ------------------------------------------------------------------
\* C2. With a window of capacity c > 0 (not count_only, not
\* filenames_only) the before lines printed for the match at line N are
\* exactly lines max(1, N-c) .. N-1, oldest first, each with its own
\* number and text, also when they were printed for an earlier match or
\* were matches themselves; a line that is no match prints none.
\* ------------------------------------------------------------------
BeforeOf(n, N) ==
    LET lo == Max(1, N - opts.before)
    IN [k \in 1..(N - lo) |-> [lineno |-> lo + k - 1, text |-> Printed(n, lo + k - 1)]]

BeforeSeen(n, N) ==
    LET b == SegAt(n, "before", N)
    IN [k \in 1..Len(b) |-> [lineno |-> b[k].lineno, text |-> b[k].text]]

C2_BeforeContext ==
    (opts.before > 0 /\ ~opts.count_only /\ ~opts.filename_only) =>
        \A n \in Opened :
            \A N \in 1..Len(Lines(n)) :
                BeforeSeen(n, N) =
                    IF N \in Matches(n) /\ Handled(n, N) THEN BeforeOf(n, N) ELSE <<>>

C2_Witness ==
    /\ opts.before = 2 /\ ~opts.count_only /\ ~opts.filename_only
    /\ \E n \in Opened :
        /\ {3, 4} \subseteq Matches(n)
        /\ 2 \notin Matches(n)
        /\ Len(SegAt(n, "before", 3)) = 2
        /\ Len(SegAt(n, "before", 4)) = 2

\* ------------------------------------------------------------------
\* C3. Without count_only and filenames_only, line k is printed as the
\* current line iff it matches or the latest match before it is at
\* most after lines back; a matching line leaves the after counter at
\* after (only a trailing line that is no match counts it down).
\* ------------------------------------------------------------------
InAfterWindow(n, k) ==
    \E m \in Matches(n) :
        /\ m < k
        /\ \A x \in (m + 1)..(k - 1) : x \notin Matches(n)
        /\ k - m <= opts.after

CurrentSeen(n) ==
    LET c == SegKind(n, "current")
    IN [k \in 1..Len(c) |-> [lineno |-> c[k].lineno, text |-> c[k].text]]

RECURSIVE CurrentOf(_, _, _)
CurrentOf(n, k, last) ==
    IF k > last THEN <<>>
    ELSE (IF k \in Matches(n) \/ InAfterWindow(n, k)
          THEN <<[lineno |-> k, text |-> Printed(n, k)]>> ELSE <<>>)
         \o CurrentOf(n, k + 1, last)

\* The last line of stream n whose print step is behind us.
LastEmitted(n) ==
    IF Finished(n) THEN Len(Lines(n))
    ELSE IF pc = "push" THEN pf.lineno ELSE pf.lineno - 1

C3_CurrentLineEmitted ==
    (~opts.count_only /\ ~opts.filename_only) =>
        /\ \A n \in Opened : CurrentSeen(n) = CurrentOf(n, 1, LastEmitted(n))
        /\ (pc = "push" /\ pf.match) => pf.after_counter = opts.after

C3_Witness ==
    /\ ~opts.count_only /\ ~opts.filename_only /\ opts.after = 2
    /\ \E n \in Opened :
        /\ Finished(n)
        /\ Matches(n) = {1}
        /\ Len(Lines(n)) = 4
        /\ Len(SegKind(n, "current")) = 3

\* ------------------------------------------------------------------
\* C4. Every match sets the after counter to after, also while an
\* earlier window is counting down; so no end marker is printed between
\* two matches at most after lines apart, and every end marker comes
\* exactly after lines past the latest match, with no match in between.
\* ------------------------------------------------------------------
C4_AfterWindowRefreshed ==
    /\ (pc = "emit" /\ pf.match) => pf.after_counter = opts.after
    /\ (~opts.count_only /\ ~opts.filename_only) =>
        \A n \in Opened :
            /\ \A m1 \in Matches(n) : \A m2 \in Matches(n) :
                (m1 < m2 /\ m2 - m1 <= opts.after) =>
                    \A k \in m1..m2 : SegAt(n, "end", k) = <<>>
            /\ \A k \in 1..Len(SegKind(n, "end")) :
                LET at == SegKind(n, "end")[k].at
                IN /\ at - opts.after \in Matches(n)
                   /\ \A x \in (at - opts.after + 1)..at : x \notin Matches(n)

C4_Witness ==
    /\ pc = "emit" /\ pf.match /\ pf.lineno = 3
    /\ opts.after = 2 /\ ~opts.count_only /\ ~opts.filename_only
    /\ 1 \in Matches(sid) /\ 2 \notin Matches(sid)
    /\ Len(SegKind(sid, "current")) = 2
    /\ SegKind(sid, "end") = <<>>

\* ------------------------------------------------------------------
\* C5. Under filenames_only a stream with a matching line prints one
\* file name line, at its first matching line, and reads nothing after
\* that line; no match line, context line or marker is ever printed.
\* ------------------------------------------------------------------
RECURSIVE EndOfLine(_, _)
EndOfLine(n, k) == IF k = 0 THEN 0 ELSE EndOfLine(n, k - 1) + Len(Lines(n)[k])

FoundLine(n) ==
    [kind |-> "found", sid |-> n, at |-> FirstMatch(n), lineno |-> 0,
     text |-> MATCH_FOUND_IN \o Name(n) \o <<"\n">>]

C5_FilenamesOnlyEarlyExit ==
    opts.filename_only =>
        /\ \A k \in 1..Len(out) : out[k].kind \in {"title", "found", "count"}
        /\ \A n \in Opened :
            /\ SegKind(n, "found") =
                    IF Matches(n) # {} /\ Finished(n) THEN <<FoundLine(n)>> ELSE <<>>
            /\ (Matches(n) # {} /\ Finished(n)) => Untitled(n) = <<FoundLine(n)>>
        /\ (sid \in Opened /\ Matches(sid) # {}) =>
            /\ pf.lineno <= FirstMatch(sid)
            /\ fp.pos <= EndOfLine(sid, FirstMatch(sid))

C5_Witness ==
    /\ opts.filename_only
    /\ \E n \in Opened :
        /\ Finished(n)
        /\ Matches(n) # {}
        /\ FirstMatch(n) = 2 /\ 3 \in Matches(n)
        /\ Len(SegKind(n, "found")) = 1

\* ------------------------------------------------------------------
\* C6. Under filenames_only a stream without a matching line prints
\* nothing at all, so only streams with a match have their name
\* printed.
\* ------------------------------------------------------------------
C6_OnlyMatchingStreamsPrint ==
    opts.filename_only =>
        \A n \in Opened : Matches(n) = {} => Seg(n) = <<>>

\* ------------------------------------------------------------------
\* C7. Under count_only no match line, context line or marker is ever
\* printed, whatever before and after are; a stream read to its end
\* prints one count line "<basename>:<count>" and nothing else but the
\* optional title.
\* ------------------------------------------------------------------
Exhausted(n) == Finished(n) /\ ~(opts.filename_only /\ Matches(n) # {})

C7_CountOnlySuppressesLines ==
    opts.count_only =>
        /\ \A k \in 1..Len(out) : out[k].kind \notin {"current", "before", "start", "end"}
        /\ \A n \in Opened :
            /\ Exhausted(n) =>
                /\ Len(Untitled(n)) = 1
                /\ Untitled(n)[1].kind = "count"
                /\ \E c \in 0..Len(Lines(n)) : Untitled(n)[1].text = CountLine(n, c)
            /\ ~Finished(n) => Untitled(n) = <<>>

C7_Witness ==
    /\ opts.count_only /\ opts.before > 0 /\ opts.after > 0
    /\ \E n \in Opened :
        /\ Exhausted(n)
        /\ 1 \in Matches(n) /\ 2 \notin Matches(n) /\ Len(Lines(n)) >= 3
        /\ Len(SegKind(n, "count")) = 1

\* ------------------------------------------------------------------
\* C8. Every line handed to the matcher is a whole newline-delimited
\* line of the stream, cut at MAX_LINE_LEN-1 bytes when it is longer,
\* and its line number is its position among those lines.
\* ------------------------------------------------------------------
C8_WholeLinesToMatcher ==
    (InFile /\ pc # "read") =>
        /\ pf.lineno <= Len(WholeLines(sid))
        /\ pf.line = Take(WholeLines(sid)[pf.lineno], MAX_LINE_LEN - 1)

\* ------------------------------------------------------------------
\* C9. Every stream starts with line number 1, after counter 0, match
\* count 0 and an empty window, and what it prints is what process_file
\* prints for its name and content alone, whatever was processed before.
\* ------------------------------------------------------------------
C9_FreshSessionPerStream ==
    /\ (pc = "read" /\ fp.pos = 0) =>
        /\ pf.lineno = 1 /\ pf.after_counter = 0 /\ pf.match_count = 0
        /\ pf.buf_count = 0 /\ pf.buf_pos = 0
        /\ pf.before_size = opts.before
        /\ Len(pf.before_buf) = opts.before
        /\ \A k \in 1..Len(pf.before_buf) : pf.before_buf[k].line = NULL
    /\ \A n \in Opened :
        Finished(n) =>
            Seg(n) = Tag(process_file_out(Name(n), StreamList[n].content, opts, regex), n)

C9_Witness ==
    /\ ~opts.count_only /\ ~opts.filename_only
    /\ opts.before > 0 /\ opts.after > 0
    /\ \E n \in Opened :
        /\ n - 1 \in Opened
        /\ Finished(n)
        /\ Lines(n - 1) # <<>> /\ Len(Lines(n - 1)) \in Matches(n - 1)
        /\ Lines(n) # <<>> /\ 1 \notin Matches(n)
        /\ Seg(n) = <<>>

\* ------------------------------------------------------------------
\* C10. A stream that cannot be opened is reported once and prints
\* nothing; what is on stdout is never taken back; the streams after it
\* are still processed, stdout is in the end what the streams that
\* open print one after the other, and main returns success.
\* ------------------------------------------------------------------
Untag(evs) ==
    [k \in 1..Len(evs) |->
        [kind |-> evs[k].kind, at |-> evs[k].at,
         lineno |-> evs[k].lineno, text |-> evs[k].text]]

RECURSIVE OutputOfOpenable(_)
OutputOfOpenable(streams) ==
    IF streams = <<>> THEN <<>>
    ELSE (IF Head(streams).ok
          THEN process_file_out(Head(streams).name, Head(streams).content, opts, regex)
          ELSE <<>>)
         \o OutputOfOpenable(Tail(streams))

IsPrefix(a, b) == Len(a) <= Len(b) /\ SubSeq(b, 1, Len(a)) = a

C10_State ==
    /\ \A n \in 1..sid :
        ~StreamList[n].ok =>
            /\ Seg(n) = <<>>
            /\ SelectSeq(err, LAMBDA e : e.sid = n) =
                    <<[kind |-> "perror", sid |-> n, path |-> Name(n)]>>
    /\ \A k \in 1..Len(err) :
        err[k].kind = "perror" => ~StreamList[err[k].sid].ok
    /\ (pc = "done" /\ \A k \in 1..Len(err) : err[k].kind = "perror") =>
        /\ status = EXIT_SUCCESS
        /\ sid = Len(StreamList)
        /\ Untag(out) = OutputOfOpenable(StreamList)

C10_OpenFailureIsolated ==
    /\ []C10_State
    /\ [][IsPrefix(out, out')]_vars

C10_Witness ==
    /\ pc = "done" /\ status = EXIT_SUCCESS
    /\ \E n \in 2..(sid - 1) :
        /\ ~StreamList[n].ok
        /\ Seg(n - 1) # <<>>
        /\ Seg(n + 1) # <<>>

\* ==================================================================
\* line_contains on its own (src/fs.c 173-200), after main's setup
\* ==================================================================
\* main's variables while a helper is run on its own: nothing is open.
MainIdle ==
    /\ argv = <<>>
    /\ disk = Disk(<<>>, <<>>)
    /\ stdin = NoStdin
    /\ pc = "done"
    /\ i = 1
    /\ j = 1
    /\ filename = <<>>
    /\ fp = [content |-> <<>>, pos |-> 0]
    /\ pf = process_file_locals(DefaultOpts)
    /\ out = <<>>
    /\ err = <<>>
    /\ status = EXIT_SUCCESS
    /\ sid = 0
    /\ heap = EMPTY_HEAP

idlevars == <<argv, disk, stdin, pc, i, j, filename, fp, pf, out, err, status, sid, heap>>

\* The lines fgets can hand over: not empty, a newline only at the end.
MatcherLines ==
    {body \o nl : body \in SeqsUpTo({"a", "b", "A"}, MaxMatchLen),
                  nl \in {<<>>, <<"\n">>}} \ {<<>>}

MatcherPatterns == SeqsUpTo({"a", "b", "A", "."}, MaxPatLen) \cup {<<"[">>}

MatcherInit ==
    /\ MainIdle
    /\ regex = regcomp(<<>>, FALSE)
    /\ \E p \in MatcherPatterns, l \in MatcherLines, ic \in BOOLEAN, re \in BOOLEAN :
        /\ opts = [DefaultOpts EXCEPT !.pattern = p, !.ignore_case = ic, !.use_regex = re]
        /\ call = [fn |-> "line_contains", step |-> "setup", pattern |-> p, line |-> l,
                   result |-> FALSE, inverted |-> FALSE]

\* main 482-505 before the call: the pattern lowered, the regex compiled.
MatcherSetup ==
    /\ call.step = "setup"
    /\ LET re == regcomp(lowered_pattern(opts), opts.ignore_case)
       IN /\ opts.use_regex => re.ok
          /\ regex' = IF opts.use_regex THEN re ELSE regex
    /\ opts' = main_opts(opts)
    /\ call' = [call EXCEPT !.step = "classify"]
    /\ UNCHANGED idlevars

\* main 493-503: regcomp fails, nothing is classified.
MatcherSetupFail ==
    /\ call.step = "setup"
    /\ opts.use_regex
    /\ ~regcomp(lowered_pattern(opts), opts.ignore_case).ok
    /\ call' = [call EXCEPT !.step = "failed"]
    /\ UNCHANGED <<opts, regex>>
    /\ UNCHANGED idlevars

\* line_contains(line, opts, regex) without -v.
Classify ==
    /\ call.step = "classify"
    /\ call' = [call EXCEPT !.result = line_contains(call.line, opts, regex),
                            !.step = "inverted"]
    /\ UNCHANGED <<opts, regex>>
    /\ UNCHANGED idlevars

\* line_contains on the same line with -v set (handle_reverse_find).
ClassifyInverted ==
    /\ call.step = "inverted"
    /\ opts' = [opts EXCEPT !.reverse_find = TRUE]
    /\ call' = [call EXCEPT !.inverted = line_contains(call.line, opts', regex),
                            !.step = "done"]
    /\ UNCHANGED regex
    /\ UNCHANGED idlevars

MatcherNext ==
    \/ MatcherSetup
    \/ MatcherSetupFail
    \/ Classify
    \/ ClassifyInverted

MatcherSpec == MatcherInit /\ [][MatcherNext]_vars

\* C11: for every line, pattern and mode (literal, case-insensitive
\* literal, regex) the answer of line_contains with -v is the negation
\* of its answer without -v.
C11_InversionNegates ==
    (call.fn = "line_contains" /\ call.step = "done")
        => (call.inverted = ~call.result)

\* A regex run and a case-insensitive literal run each classified both
\* ways, the plain answer being a match.
C11_Witness ==
    /\ call.fn = "line_contains"
    /\ call.step = "done"
    /\ opts.use_regex
    /\ opts.ignore_case
    /\ call.pattern = <<".", "A">>
    /\ call.line = <<"b", "a", "\n">>
    /\ call.result
    /\ ~call.inverted

\* The claim's own words: contiguous substring, ASCII lower case.
AsciiLower(s) ==
    [k \in 1..Len(s) |-> IF s[k] = "A" THEN "a" ELSE IF s[k] = "B" THEN "b" ELSE s[k]]

Contains(text, pattern) ==
    \E pre, post \in 0..Len(text) :
        /\ pre + Len(pattern) + post = Len(text)
        /\ \A m \in 1..Len(pattern) : text[pre + m] = pattern[m]

\* C12: in literal mode without -v a line is a match iff it contains the
\* pattern as a contiguous substring; with -i iff the lowered line
\* contains the lowered pattern, the pattern being lowered once by main
\* before any line is classified; the empty pattern matches every line.
C12_LiteralSubstring ==
    (call.fn = "line_contains" /\ call.step \in {"classify", "inverted", "done"}
        /\ ~opts.use_regex)
        => /\ opts.ignore_case => opts.pattern = AsciiLower(call.pattern)
           /\ ~opts.ignore_case => opts.pattern = call.pattern
           /\ call.step # "classify" =>
                /\ call.result =
                     IF opts.ignore_case
                     THEN Contains(AsciiLower(call.line), AsciiLower(call.pattern))
                     ELSE Contains(call.line, call.pattern)
                /\ call.pattern = <<>> => call.result

\* An upper-case pattern found in a lower-case line under -i, and the
\* empty pattern on the empty line.
C12_Witness ==
    /\ call.fn = "line_contains"
    /\ call.step = "inverted"
    /\ ~opts.use_regex
    /\ \/ /\ opts.ignore_case
          /\ call.pattern = <<"A", "b">>
          /\ call.line = <<"b", "a", "B">>
          /\ call.result
       \/ /\ call.pattern = <<>>
          /\ call.line = <<"\n">>
          /\ call.result

\* ==================================================================
\* print_line on its own (src/fs.c 235-301)
\* ==================================================================
\* Lines as fgets hands them over: text and tabs, a newline only at the
\* end, and two lines that fill the buffer.
FormatLines ==
    ({body \o nl : body \in SeqsUpTo({"a", "b", "\t"}, MaxFmtLen),
                   nl \in {<<>>, <<"\n">>}} \ {<<>>})
        \cup {[k \in 1..(MAX_LINE_LEN - 1) |-> IF k % 2 = 1 THEN "a" ELSE "b"],
              [k \in 1..(MAX_LINE_LEN - 1) |-> IF k = MAX_LINE_LEN - 1 THEN "\n" ELSE "b"]}

\* -l and -L as their handlers leave them: within 0..MAX_LINE_LEN-1.
FormatLimits == {0, 2, 5, MAX_LINE_LEN - 1}
FormatCrops == {0, 1, 4, MAX_LINE_LEN - 1}

\* The line number the line is printed with.
FORMAT_LINENO == 7

FormatInit ==
    /\ MainIdle
    /\ regex = regcomp(<<>>, FALSE)
    /\ \E l \in FormatLines, ml \in FormatLimits, cr \in FormatCrops, n \in BOOLEAN :
        /\ opts = [DefaultOpts EXCEPT !.line_limit = ml, !.line_crop = cr,
                                      !.show_line_numbers = n, !.show_filename = n]
        /\ call = [fn |-> "print_line", step |-> "expand", line |-> l,
                   expanded |-> <<>>, text |-> <<>>, body |-> <<>>, again |-> <<>>]

\* 243-274: line_expanded after the copy, the strip and the expansion.
Expand ==
    /\ call.step = "expand"
    /\ call' = [call EXCEPT !.expanded = expand_tabs(strip_newline(call.line), 1, <<>>, 0),
                            !.step = "print"]
    /\ UNCHANGED <<opts, regex>>
    /\ UNCHANGED idlevars

\* 275-300: what printf prints, and the part of it after the prefix.
Format ==
    /\ call.step = "print"
    /\ call' = [call EXCEPT
                  !.text = print_line(F2, call.line, FORMAT_LINENO, opts.line_limit,
                                      opts.line_crop, opts.show_line_numbers,
                                      opts.show_filename),
                  !.body = print_line_body(call.line, opts.line_limit, opts.line_crop),
                  !.step = "again"]
    /\ UNCHANGED <<opts, regex>>
    /\ UNCHANGED idlevars

\* print_line called on the body it printed, with the same options.
Reformat ==
    /\ call.step = "again"
    /\ call' = [call EXCEPT
                  !.again = print_line_body(call.body, opts.line_limit, opts.line_crop),
                  !.step = "done"]
    /\ UNCHANGED <<opts, regex>>
    /\ UNCHANGED idlevars

FormatNext ==
    \/ Expand
    \/ Format
    \/ Reformat

FormatSpec == FormatInit /\ [][FormatNext]_vars

CallAt(step) == call.fn = "print_line" /\ call.step \in step

\* The post-crop text of an expanded line.
PostCrop(expanded, crop) ==
    IF Len(expanded) <= crop THEN <<>>
    ELSE [k \in 1..(Len(expanded) - crop) |-> expanded[k + crop]]

\* The prefix of a line of file "d/g" printed as line 7.
ExpectedPrefix ==
    (IF opts.show_filename THEN <<"g", ":">> ELSE <<>>)
        \o (IF opts.show_line_numbers THEN <<"0", "0", "0", "7", ":">> ELSE <<>>)

\* C13: the body printed is the first min(max_output_chars, P)
\* characters of the post-crop text: the expanded line (line_expanded at
\* 273) without its first crop_chars characters, empty when the expanded
\* line is not longer than crop_chars, P being its length; the crop comes
\* before the limit, nothing is padded, and the printed text is prefix,
\* body, newline also when the body is cropped away.
C13_CropThenLimit ==
    CallAt({"again", "done"}) =>
        LET post == PostCrop(call.expanded, opts.line_crop)
            n == IF opts.line_limit < Len(post) THEN opts.line_limit ELSE Len(post)
        IN /\ Len(call.body) = n
           /\ \A k \in 1..n : call.body[k] = post[k]
           /\ call.text = ExpectedPrefix \o call.body \o <<"\n">>

\* A line cropped and limited at once, and a line cropped away that
\* still prints its prefix.
C13_Witness ==
    /\ CallAt({"again"})
    /\ \/ /\ call.line = <<"a", "\t", "b", "a", "\n">>
          /\ opts.line_crop = 1
          /\ opts.line_limit = 2
          /\ call.body = <<" ", " ">>
       \/ /\ call.line = <<"a", "b", "\n">>
          /\ opts.line_crop = 4
          /\ opts.show_filename
          /\ call.text = <<"g", ":", "0", "0", "0", "7", ":", "\n">>

\* C14: a line without a tab, printed with crop_chars = 0 and
\* max_output_chars at least its length, comes out after the prefix as
\* the line without its one trailing newline, or unchanged when it has
\* none.
C14_RoundTrip ==
    (/\ CallAt({"again", "done"})
     /\ \A k \in 1..Len(call.line) : call.line[k] # "\t"
     /\ opts.line_crop = 0
     /\ opts.line_limit >= Len(call.line))
        => /\ call.body = IF call.line[Len(call.line)] = "\n"
                          THEN [k \in 1..(Len(call.line) - 1) |-> call.line[k]]
                          ELSE call.line
           /\ call.text = ExpectedPrefix \o call.body \o <<"\n">>

\* A line that fills the buffer and ends in a newline, and one without
\* a newline, both printed whole.
C14_Witness ==
    /\ CallAt({"again"})
    /\ opts.line_crop = 0
    /\ opts.line_limit = MAX_LINE_LEN - 1
    /\ \/ /\ Len(call.line) = MAX_LINE_LEN - 1
          /\ call.line[MAX_LINE_LEN - 1] = "\n"
          /\ Len(call.body) = MAX_LINE_LEN - 2
       \/ /\ call.line = <<"a", "b">>
          /\ call.body = <<"a", "b">>

\* C15 as stated: for every line and every crop_chars and
\* max_output_chars, printing the printed body again with the same
\* options gives the same body.
C15_Idempotent ==
    CallAt({"done"}) => call.again = call.body

\* C15, amended: with crop_chars = 0 printing the printed body again
\* with the same max_output_chars gives the same body, tabs or not; with
\* crop_chars > 0 the second pass crops crop_chars characters more.
C15_IdempotentWithoutCrop ==
    CallAt({"done"}) =>
        /\ opts.line_crop = 0 => call.again = call.body
        /\ opts.line_crop > 0 =>
             call.again = Take(PostCrop(call.body, opts.line_crop), opts.line_limit)

\* A tabbed line limited to 5 columns and printed twice without crop,
\* and a line printed twice under -L1.
C15_Witness ==
    /\ CallAt({"done"})
    /\ \/ /\ opts.line_crop = 0
          /\ opts.line_limit = 5
          /\ call.line = <<"a", "\t", "b", "\t", "\n">>
          /\ call.body = <<"a", " ", " ", " ", "b">>
          /\ call.again = call.body
       \/ /\ opts.line_crop = 1
          /\ call.line = <<"a", "b", "a", "\n">>
          /\ call.body = <<"b", "a">>
          /\ call.again = <<"a">>

\* The expansion the claim describes, of the first n characters of text:
\* a tab at output column c becomes 4 - (c mod 4) spaces, any other
\* character is copied.
RECURSIVE TabStops(_, _)
TabStops(text, n) ==
    IF n = 0 THEN <<>>
    ELSE LET before == TabStops(text, n - 1)
             c == Len(before)
         IN IF text[n] = "\t"
            THEN before \o [k \in 1..(4 - (c % 4)) |-> " "]
            ELSE before \o <<text[n]>>

\* The line as print_line reads it: without its trailing newline.
Chomped(line) ==
    IF Len(line) > 0 /\ line[Len(line)] = "\n"
    THEN [k \in 1..(Len(line) - 1) |-> line[k]]
    ELSE line

\* C19 as stated: every tab at output column c is replaced by
\* 4 - (c mod 4) spaces, so what follows a tab starts at a multiple of 4,
\* and the other characters are copied unchanged.
C19_TabStops ==
    CallAt({"print", "again", "done"}) =>
        call.expanded = TabStops(Chomped(call.line), Len(Chomped(call.line)))

\* C19, amended: the expanded line is the first MAX_LINE_LEN-1
\* characters of that expansion: every tab at output column c is
\* replaced by 4 - (c mod 4) spaces and the other characters are copied
\* unchanged until the expansion buffer is full, where the expansion
\* stops, inside a tab's spaces if need be; what follows a tab that was
\* expanded in full starts at a multiple of 4.
C19_TabStopsWithinBuffer ==
    CallAt({"print", "again", "done"}) =>
        LET text == Chomped(call.line)
            whole == TabStops(text, Len(text))
        IN /\ call.expanded = Take(whole, MAX_LINE_LEN - 1)
           /\ \A n \in 1..Len(text) :
                (text[n] = "\t" /\ Len(TabStops(text, n)) <= Len(call.expanded))
                    => /\ Len(TabStops(text, n)) % 4 = 0
                       /\ \A k \in (Len(TabStops(text, n - 1)) + 1)..Len(TabStops(text, n)) :
                            call.expanded[k] = " "

\* A tab after one character and a tab after a tab, expanded in full;
\* and three tabs, of which the third is cut by the buffer.
C19_Witness ==
    /\ CallAt({"print"})
    /\ \/ /\ call.line = <<"a", "\t", "\t", "b", "\n">>
          /\ call.expanded = <<"a", " ", " ", " ", " ", " ", " ", " ", "b">>
       \/ /\ call.line = <<"\t", "\t", "\t", "a">>
          /\ Len(call.expanded) = MAX_LINE_LEN - 1

\* ==================================================================
\* Claims about the context window and the block markers (Spec)
\* ==================================================================
\* The window replayed oldest to newest: the slots the loop of 361-368
\* visits, in its order.
WindowReplay ==
    [k \in 1..pf.buf_count |->
        pf.before_buf[((pf.buf_pos + (pf.before_size - pf.buf_count) + (k - 1))
                          % pf.before_size) + 1]]

\* The lines of the open stream that are fully processed: line
\* pf.lineno is the one being read, classified, printed or pushed.
LinesDone == pf.lineno - 1

\* C16: in every state of a stream being processed the window holds at
\* most min(capacity, lines fully processed) entries, its replay oldest
\* to newest has consecutive ascending line numbers, and every entry is
\* a copy of a line strictly before the one being classified.
C16_WindowInvariant ==
    InFile =>
        LET replay == WindowReplay
            lines == Lines(sid)
        IN /\ pf.buf_count <= Min(pf.before_size, LinesDone)
           /\ \A k \in 1..pf.buf_count :
                /\ replay[k].line # NULL
                /\ replay[k].lineno < pf.lineno
                /\ replay[k].lineno >= 1
                /\ replay[k].line[1] = lines[replay[k].lineno]
                /\ k > 1 => replay[k].lineno = replay[k - 1].lineno + 1

\* A full window of two lines that has wrapped, while a later line is
\* being printed and is not yet in it.
C16_Witness ==
    /\ pc = "emit"
    /\ pf.before_size = 2
    /\ pf.buf_count = 2
    /\ pf.lineno = 4
    /\ pf.match
    /\ WindowReplay[1].lineno = 2
    /\ WindowReplay[2].lineno = 3

\* How many end markers stdout holds.
EndCount(o) == Len(SelectSeq(o, LAMBDA e : e.kind = "end"))

\* The lines of stream n at which an after window runs out: after > 0
\* lines past a match, none of them a match.
EndsDue(n) ==
    LET ms == Matches(n)
    IN {K \in 1..Len(Lines(n)) :
            /\ opts.after > 0
            /\ (K - opts.after) \in ms
            /\ \A m \in (K - opts.after + 1)..K : m \notin ms}

\* Line K of stream n has been through the print of 384-393.
Emitted(n, K) == Processed(n, K) \/ (n = sid /\ pc = "push" /\ pf.lineno = K)

C17_State ==
    /\ (opts.after = 0 \/ opts.count_only \/ opts.filename_only) => EndCount(out) = 0
    /\ \A n \in Opened :
        LET due == EndsDue(n)
        IN \A K \in 1..Len(Lines(n)) :
            Len(SegAt(n, "end", K)) =
                IF Emitted(n, K) /\ K \in due
                    /\ ~opts.count_only /\ ~opts.filename_only
                THEN 1 ELSE 0

C17_Step ==
    LET countdown_ends ==
            /\ pc = "emit"
            /\ ~pf.match
            /\ pf.after_counter > 0
            /\ pf'.after_counter = 0
    IN /\ EndCount(out') = EndCount(out) + (IF countdown_ends THEN 1 ELSE 0)
       /\ countdown_ends =>
            /\ out'[Len(out')].kind = "end"
            /\ out'[Len(out')].at = pf.lineno
            /\ out'[Len(out') - 1].kind = "current"
            /\ out'[Len(out') - 1].lineno = pf.lineno

\* C17: an end marker is printed exactly at the steps where the print
\* of a non-matching line takes after_counter down to 0, one per such
\* step right after that line, and by no other step: none when after is
\* 0, none under count_only, none at the end of the stream, so a block
\* whose after window the end of the stream cuts short has none.
C17_EndMarkerExact == []C17_State /\ [][C17_Step]_vars

\* A finished stream with after = 1: the first block got its end
\* marker, the block of the match on the last line got none.
C17_Witness ==
    /\ pc = "done"
    /\ opts.after = 1
    /\ ~opts.count_only
    /\ \E n \in Opened :
        /\ Len(Lines(n)) = 3
        /\ Matches(n) = {1, 3}
        /\ Len(SegKind(n, "end")) = 1
        /\ Len(SegAt(n, "end", 2)) = 1

\* The positions of the start markers in stdout.
StartsAt == {p \in 1..Len(out) : out[p].kind = "start"}

\* C18 as stated: a start marker is printed only when before > 0 and
\* not under count_only, and every start marker is directly followed by
\* at least one before-context line of its block.
C18_StartBeforeContext ==
    \A p \in StartsAt :
        /\ opts.before > 0
        /\ ~opts.count_only
        /\ p < Len(out) =>
             /\ out[p + 1].kind = "before"
             /\ out[p + 1].sid = out[p].sid

\* C18, amended: a start marker is printed once per handled match (not
\* per block) when before > 0 and not under count_only, and by nothing
\* else; it is directly followed by that match's before-context lines,
\* min(before, N-1) of them for the match at line N, and then by the
\* matching line itself: the marker of a match at line 1 has no
\* before-context line after it.
C18_StartPerMatch ==
    /\ \A p \in StartsAt :
        LET n == out[p].sid
            N == out[p].at
            nb == Min(opts.before, N - 1)
        IN /\ opts.before > 0
           /\ ~opts.count_only
           /\ N \in Matches(n)
           /\ p + nb <= Len(out)
           /\ \A q \in 1..nb :
                /\ out[p + q].kind = "before"
                /\ out[p + q].sid = n
                /\ out[p + q].at = N
                /\ out[p + q].lineno = N - nb + q - 1
           /\ p + nb < Len(out) =>
                /\ out[p + nb + 1].kind = "current"
                /\ out[p + nb + 1].sid = n
                /\ out[p + nb + 1].lineno = N
    /\ \A n \in Opened :
        LET ms == Matches(n)
        IN \A N \in 1..Len(Lines(n)) :
            Len(SegAt(n, "start", N)) =
                IF Handled(n, N) /\ N \in ms /\ opts.before > 0
                    /\ ~opts.count_only /\ ~opts.filename_only
                THEN 1 ELSE 0

\* Two matching lines in a row at the head of a stream, before = 2: a
\* marker with no before line after it, then a marker with one.
C18_Witness ==
    /\ pc = "done"
    /\ opts.before = 2
    /\ ~opts.count_only
    /\ \E n \in Opened :
        /\ {1, 2} \subseteq Matches(n)
        /\ Len(SegAt(n, "start", 1)) = 1
        /\ Len(SegAt(n, "before", 1)) = 0
        /\ Len(SegAt(n, "start", 2)) = 1
        /\ Len(SegAt(n, "before", 2)) = 1

\* C20: when a stream's processing has returned, by either exit, every
\* line copy and the array of its window are freed; while a stream is
\* open the live blocks are its array and the copies in its slots; and
\* under filenames_only the capacity is 0, so nothing is allocated.
C20_WindowReleased ==
    /\ ~InFile => heap = EMPTY_HEAP
    /\ InFile =>
        /\ heap.bufs = (IF pf.before_size > 0 THEN 1 ELSE 0)
        /\ heap.lines = Cardinality({k \in 1..pf.before_size : pf.before_buf[k].line # NULL})
        /\ opts.filename_only => (pf.before_size = 0 /\ heap = EMPTY_HEAP)

\* A stream read to its end whose window of two held two copies, and
\* the heap empty after it.
C20_Witness ==
    /\ pc = "done"
    /\ sid = 1
    /\ opts.before = 2
    /\ pf.before_size = 2
    /\ pf.buf_count = 2
    /\ pf.lineno = 4
    /\ \A k \in 1..2 : pf.before_buf[k].line = NULL
    /\ heap = EMPTY_HEAP

\* ==================================================================
\* Claims about the order of the output and the progress of a stream
\* ==================================================================
\* Where an event stands in the output of the line it was printed at.
KindRank(kind) ==
    CASE kind = "start" -> 1
      [] kind = "before" -> 2
      [] kind = "current" -> 3
      [] kind = "end" -> 4
      [] OTHER -> 0

\* What stream n printed for its lines: no title, count or found line.
LineEvents(n) == SelectSeq(out, LAMBDA e : e.sid = n /\ KindRank(e.kind) > 0)

\* C21: within a stream without count_only and filenames_only the
\* current lines are printed in strictly ascending line-number order,
\* each at most once, and what is printed while at line N comes in the
\* order start marker, before-context lines (ascending, all before N),
\* line N itself, with nothing printed at a later line in between and
\* nothing printed at an earlier line after it.
C21_EmissionOrder ==
    (~opts.count_only /\ ~opts.filename_only) =>
        \A n \in Opened :
            LET evs == LineEvents(n)
            IN /\ \A p \in 1..Len(evs) :
                    /\ evs[p].kind = "current" => evs[p].lineno = evs[p].at
                    /\ evs[p].kind = "before" => evs[p].lineno < evs[p].at
               /\ \A p \in 1..(Len(evs) - 1) :
                    \/ evs[p].at < evs[p + 1].at
                    \/ /\ evs[p].at = evs[p + 1].at
                       /\ KindRank(evs[p].kind) < KindRank(evs[p + 1].kind)
                    \/ /\ evs[p].at = evs[p + 1].at
                       /\ evs[p].kind = "before"
                       /\ evs[p + 1].kind = "before"
                       /\ evs[p].lineno < evs[p + 1].lineno

\* A finished stream of three lines, before = 2: the match at line 3
\* printed its marker, lines 1 and 2 and itself, in that order, after
\* the match at line 1 was printed.
C21_Witness ==
    /\ pc = "done"
    /\ ~opts.count_only
    /\ ~opts.filename_only
    /\ opts.before = 2
    /\ opts.after = 0
    /\ \E n \in Opened :
        LET evs == LineEvents(n)
        IN /\ Len(evs) = 6
           /\ evs[1].kind = "start" /\ evs[1].at = 1
           /\ evs[2].kind = "current" /\ evs[2].lineno = 1
           /\ evs[3].kind = "start" /\ evs[3].at = 3
           /\ evs[4].kind = "before" /\ evs[4].lineno = 1
           /\ evs[5].kind = "before" /\ evs[5].lineno = 2
           /\ evs[6].kind = "current" /\ evs[6].lineno = 3

\* The slots of the ring that hold a copy, and the slot the replay loop
\* of 361-368 starts at.
StoredSlots == {k \in 0..(pf.before_size - 1) : pf.before_buf[k + 1].line # NULL}
ReplayStart == (pf.buf_pos + (pf.before_size - pf.buf_count)) % pf.before_size

\* C23: while a stream is open with before_size > 0, buf_pos is in
\* 0..before_size-1 and buf_count in 0..before_size, the replay's start
\* index is the slot of the oldest stored line, and the buf_count slots
\* a replay visits are exactly the slots that hold a line, so its null
\* check never fails; with before_size = 0 the ring code has not run:
\* the indices are still 0 and no marker or before line was printed, so
\* no modulo was taken by 0.
C23_RingIndexSafe ==
    InFile =>
        /\ pf.before_size > 0 =>
            /\ pf.buf_pos \in 0..(pf.before_size - 1)
            /\ pf.buf_count \in 0..pf.before_size
            /\ Len(pf.before_buf) = pf.before_size
            /\ {(ReplayStart + k) % pf.before_size : k \in 0..(pf.buf_count - 1)} = StoredSlots
            /\ Cardinality(StoredSlots) = pf.buf_count
            /\ pf.buf_count > 0 =>
                \A k \in StoredSlots :
                    pf.before_buf[ReplayStart + 1].lineno <= pf.before_buf[k + 1].lineno
        /\ pf.before_size = 0 =>
            /\ pf.buf_pos = 0
            /\ pf.buf_count = 0
            /\ pf.before_buf = <<>>
            /\ SegKind(sid, "start") = <<>>
            /\ SegKind(sid, "before") = <<>>

\* A ring of two slots after three lines: the write index has wrapped
\* to 1 and the oldest stored line, line 2, is in the slot the replay
\* starts at.
C23_Witness ==
    /\ pc = "read"
    /\ pf.before_size = 2
    /\ pf.buf_count = 2
    /\ pf.buf_pos = 1
    /\ pf.lineno = 4
    /\ ReplayStart = 1
    /\ pf.before_buf[ReplayStart + 1].lineno = 2

\* The read position after the first k lines of content.
RECURSIVE PosAfter(_, _)
PosAfter(content, k) ==
    IF k = 0 THEN 0
    ELSE fgets(content, PosAfter(content, k - 1), MAX_LINE_LEN).pos

\* While a stream is open, the line in hand is line pf.lineno of the
\* stream and the read position is just past it (just before it while
\* it is still to be read).
C22_State ==
    InFile =>
        LET lines == Lines(sid)
        IN IF pc = "read"
           THEN /\ pf.lineno <= Len(lines) + 1
                /\ fp.pos = PosAfter(fp.content, pf.lineno - 1)
           ELSE /\ pf.lineno <= Len(lines)
                /\ pf.line = lines[pf.lineno]
                /\ fp.pos = PosAfter(fp.content, pf.lineno)

C22_Step ==
    /\ (pc = "read" /\ pc' = "match") =>
        /\ fp'.pos = fp.pos + Len(pf'.line)
        /\ Len(pf'.line) > 0
        /\ pf'.lineno = pf.lineno
    /\ (InFile /\ InFile') =>
        pf'.lineno = pf.lineno + (IF pc = "push" THEN 1 ELSE 0)
    /\ (InFile /\ ~InFile') =>
        \/ /\ pc = "read"
           /\ fp.pos = Len(fp.content)
           /\ pf.lineno = Len(Lines(sid)) + 1
        \/ /\ pc = "match"
           /\ opts.filename_only
           /\ Matches(sid) # {}
           /\ pf.lineno = FirstMatch(sid)
    /\ (~InFile /\ InFile') => (pf'.lineno = 1 /\ fp'.pos = 0)

\* C22: the processing of every stream that is entered returns; until
\* then each line is read once and in order (the read position only
\* moves forward, by the line read), the line number goes up by exactly
\* 1 per line, and the stream is left either when the source is
\* exhausted or at the first match under filenames_only.
C22_StreamTerminates ==
    /\ []C22_State
    /\ [][C22_Step]_vars
    /\ (InFile ~> ~InFile)

\* A stream of three lines read to its end and left.
C22_Witness ==
    /\ pc = "done"
    /\ sid = 1
    /\ ~opts.filename_only
    /\ Len(Lines(1)) = 3
    /\ pf.lineno = 4
    /\ fp.pos = Len(fp.content)
====
